---- MODULE Spec2Model ----
(***************************************************************************)
(* Sale lifecycle of the Digikhata backend: creation, approval, rejection  *)
(* and bulk approval of sales, the product stock and aggregates they       *)
(* change, the stock-movement log, and the realtime events they emit.      *)
(*                                                                         *)
(* The store is read-committed: a handler's reads see the committed rows,  *)
(* and the writes of one transaction become visible together at its        *)
(* commit.  Every await on the store is a point where other requests run,  *)
(* so a handler is a sequence of atomic steps: its reads, its commit, and  *)
(* the emits and the count query that follow the commit.                   *)
(***************************************************************************)
EXTENDS Integers, Sequences, FiniteSets, Bags, TLC

\* ------------------------------------------------------------------ bounds
MaxSales == 2
MaxRequests == 3
MaxBatch == 2
MaxQty == 2
MaxStock == 3
InitStock == 2

\* ------------------------------------------------------ inputs of the model
Procs == {1, 2}
Products == {1}
ProductIdsIn == {1, 2}
Admins == {"admin"}
Employees == {"emp"}
Users == Admins \cup Employees
\* the employees that have a room of their own; "emp2" makes no sale
EmployeeIds == Employees \cup {"emp2"}
\* the connections of the realtime channel and the userData a client can
\* send with join_sales_room
Connections == {"socket1"}
JoinData == {[userId |-> "admin", role |-> "admin"],
             [userId |-> "emp", role |-> "employee"]}
Reasons == {"", " ", "damaged"}
NotesIn == {"", "checked"}
Price == 100
CostPrice == 60
NoCount == 0 - 1
\* the price and cost price a product update sets
NewPrice == Price + 10
NewCostPrice == CostPrice + 10
DefaultReason == "Sale rejected by admin"

\* room names of the fan-out
AdminRoom == [kind |-> "admin_sales_room", user |-> ""]

\* `user_${userId}`
UserRoom(u) == [kind |-> "user", user |-> u]

\* socket.data.user of a connection that has not sent join_sales_room
NoUser == [userId |-> "", role |-> ""]

\* a connection as the server holds it: socket.data.user, the rooms it was
\* added to, the messages sent to it alone with socket.emit, and whether
\* admin_online was announced for it
NewSocket == [user |-> NoUser, rooms |-> {}, received |-> <<>>, announced |-> FALSE]


EmployeeRoom(u) == [kind |-> "employee_sales", user |-> u]

\* product    the Product rows: qtyInStock, price, costPrice, totalSales, totalProfit
\* sales      the Sale rows, by id
\* movements  the StockMovement rows, in insertion order
\* req        the locals of the handler running in each request slot
\* started    the number of handler invocations so far
\* emitted    the events emitted to the rooms
\* adminCount the count of the last pending_count_updated sent to the admin room
\* lastReply  the response of the handler that finished last
\* okReplies  per sale, the number of approve and reject calls answered with success
VARIABLES product, sales, movements, req, started, emitted, adminCount,
          lastReply, okReplies, socket

vars == <<product, sales, movements, req, started, emitted, adminCount,
          lastReply, okReplies, socket>>

\* the rows of the Ledger Store
store == <<product, sales, movements>>

\* the check lets through every connection that has joined, whatever the role
JoinedAsAdmin_anyRole(c) == socket[c].user # NoUser

\* !socket.data.user || socket.data.user.role !== "admin", negated
JoinedAsAdmin(c) == socket[c].user # NoUser /\ socket[c].user.role = "admin"

\* the locals r with socket.data.user as the connection holds it now
WithSocketUser(r) == [r EXCEPT !.actor = socket[r.conn].user.userId]

\* what the clients have been sent
outputs == <<emitted, adminCount, lastReply, okReplies>>

\* ----------------------------------------------------------------- helpers
SaleIds == 1..Len(sales)

\* the ids a request may name: the sales that exist and one that does not
SaleIdsIn == 1..(Len(sales) + 1)

\* count({ where: { status: "pending" } })
PendingCount == Cardinality({s \in SaleIds : sales[s].status = "pending"})

\* reason.trim().length === 0
IsBlank(r) == r \in {"", " "}

IsAdmin(u) == u \in Admins

\* a product row that is not loaded
NoRow ==
  [qtyInStock |-> 0, price |-> 0, costPrice |-> 0, totalSales |-> 0,
   totalProfit |-> 0, lastSaleDate |-> 0]

\* a request slot: the handler's locals
Idle ==
  [kind |-> "idle", via |-> "", pc |-> "idle", actor |-> "", sale |-> 0,
   product |-> 0, qty |-> 0, text |-> "", mtype |-> "", snapQty |-> 0,
   snapCount |-> 0, snapRow |-> NoRow, io |-> FALSE, ids |-> <<>>, results |-> <<>>, succ |-> 0, fail |-> 0,
   count |-> NoCount, committed |-> FALSE, conn |-> ""]

\* the handlers that open one transaction for the whole invocation
\* (createQueryRunner, connect, startTransaction before the try block)
Transactional ==
  {"EnhancedSaleController.createSale", "EmployeeController.sellProduct",
   "recordStockMovement", "AdminController.approveSale", "AdminController.rejectSale",
   "SaleController.approveSale", "SaleController.rejectSale",
   "AdminController.rejectSale.v1", "approve_sale_realtime", "reject_sale_realtime"}

\* body("qtySold").isInt({ min: 1 }), body("quantity").isInt({ min: 1 })
ValidQuantity(q) == q >= 1

\* the calls that end the transaction on the path that answers res: the
\* validation-error return has neither a commit nor a rollback before the
\* finally block releases the connection; the refusals roll back once; a
\* success commits once; a failure caught after the commit reaches
\* rollbackTransaction in the catch block on top of the commit
TransactionEnds(r, res) ==
  IF r.via \notin Transactional THEN NoCount
  ELSE IF res = "ValidationError" THEN 0
  ELSE IF r.committed /\ res \in {"error", "noreply"} THEN 2
  ELSE 1

\* the response a caller receives (res.json / the acknowledgment callback);
\* `total` is the length of the list the caller sent, `totalProcessed` the
\* field of that name in the summary of AdminController.bulkApproveSales,
\* `cause` the error the catch block logs when the store refuses a write,
\* `ends` the number of commitTransaction and rollbackTransaction calls the
\* handler made on its transaction before releasing the connection
Rep(r, res) ==
  [kind |-> r.kind, via |-> r.via, actor |-> r.actor, sale |-> r.sale,
   product |-> r.product, qty |-> r.qty, text |-> r.text, result |-> res,
   committed |-> r.committed, available |-> 0, requested |-> 0,
   results |-> r.results, succ |-> r.succ, fail |-> r.fail, total |-> Len(r.ids),
   totalProcessed |-> IF r.via = "AdminController.bulkApproveSales" /\ res = "success"
                      THEN Len(r.ids) ELSE NoCount,
   cause |-> "", ends |-> TransactionEnds(r, res), conn |-> r.conn]

Free(p) ==
  /\ req[p].pc = "idle"
  /\ \A q \in Procs : q < p => req[q].pc # "idle"
  /\ started < MaxRequests

At(p, via, pc) == req[p].via = via /\ req[p].pc = pc

\* the handler of slot p returns `rep` to its caller and ends
Respond(p, rep) ==
  /\ req' = [req EXCEPT ![p] = Idle]
  /\ lastReply' = rep
  /\ okReplies' =
       IF rep.kind \in {"approve", "reject"} /\ rep.result = "success"
          /\ rep.sale \in DOMAIN okReplies
       THEN [okReplies EXCEPT ![rep.sale] = @ + 1]
       ELSE okReplies

\* the handler of slot p goes on with locals r
Continue(p, r) ==
  /\ req' = [req EXCEPT ![p] = r]
  /\ UNCHANGED <<lastReply, okReplies>>

Emit(ev) == emitted' = emitted (+) SetToBag({ev})

Emit2(ev1, ev2) == emitted' = (emitted (+) SetToBag({ev1})) (+) SetToBag({ev2})

Init ==
  /\ product = [i \in Products |->
                  [qtyInStock |-> InitStock, price |-> Price, costPrice |-> CostPrice,
                   totalSales |-> 0, totalProfit |-> 0, lastSaleDate |-> 0]]
  /\ sales = <<>>
  /\ movements = <<>>
  /\ req = [p \in Procs |-> Idle]
  /\ started = 0
  /\ emitted = EmptyBag
  /\ adminCount = NoCount
  /\ lastReply = Rep(Idle, "none")
  /\ okReplies = <<>>
  /\ socket = [c \in Connections |-> NewSocket]

\* ------------------------------------------------------------ sale creation
CreateVias == {"EnhancedSaleController.createSale", "EmployeeController.sellProduct"}

\* the check lets through a quantity one above the stock
InsufficientStock_offByOne(qtyInStock, qty) == qtyInStock + 1 < qty

\* product.qtyInStock < qtySold
InsufficientStock(qtyInStock, qty) == qtyInStock < qty

\* validationResult(req), findOne(Product) and the stock check; the failures
\* return before any write
createSale_findProduct(p) ==
  /\ Free(p)
  /\ \E via \in CreateVias, u \in Employees, pid \in ProductIdsIn, q \in 0..MaxQty :
       LET r0 == [Idle EXCEPT !.kind = "create", !.via = via, !.actor = u,
                              !.product = pid, !.qty = q]
       IN IF ~ValidQuantity(q)
          THEN Respond(p, Rep(r0, "ValidationError"))
          ELSE IF pid \notin Products
          THEN Respond(p, Rep(r0, "ProductNotFound"))
          ELSE IF InsufficientStock(product[pid].qtyInStock, q)
          THEN Respond(p, [Rep(r0, "InsufficientStock") EXCEPT
                             !.available = product[pid].qtyInStock, !.requested = q])
          ELSE /\ Len(sales) + Cardinality({o \in Procs : req[o].kind = "create"})
                    < MaxSales
               /\ Continue(p, [r0 EXCEPT !.pc = "count",
                                         !.snapQty = product[pid].qtyInStock,
                                         !.snapRow = product[pid]])
  /\ started' = started + 1
  /\ UNCHANGED <<store, emitted, adminCount, socket>>

\* queryRunner.manager.count(Sale)
createSale_count(p) ==
  /\ req[p].kind = "create" /\ req[p].pc = "count"
  /\ Continue(p, [req[p] EXCEPT !.pc = "write", !.snapCount = Len(sales)])
  /\ UNCHANGED <<store, started, emitted, adminCount, socket>>

\* a decimal digit as a character
Digit(d) ==
  CASE d = 0 -> "0" [] d = 1 -> "1" [] d = 2 -> "2" [] d = 3 -> "3" [] d = 4 -> "4"
    [] d = 5 -> "5" [] d = 6 -> "6" [] d = 7 -> "7" [] d = 8 -> "8" [] d = 9 -> "9"

\* String(n): the decimal digits of n, as a sequence of characters
RECURSIVE Digits(_)
Digits(n) ==
  IF n < 10 THEN <<Digit(n)>> ELSE Append(Digits(n \div 10), Digit(n % 10))

\* padStart(width, "0"): zeros in front up to the width, nothing cut off
PadStart(chars, width) ==
  IF Len(chars) >= width THEN chars
  ELSE [i \in 1..(width - Len(chars)) |-> "0"] \o chars

SaleNumberWidth == 6

\* the sale number without the padding
SaleNumberOf_unpadded(saleCount) ==
  <<"S", "A", "L", "E", "-">> \o Digits(saleCount + 1)

\* `SALE-${String(saleCount + 1).padStart(6, "0")}`
SaleNumberOf(saleCount) ==
  <<"S", "A", "L", "E", "-">> \o PadStart(Digits(saleCount + 1), SaleNumberWidth)

\* the sale number of a manual stock movement: none
NoSaleNumber == <<>>

\* unitPrice = product.price, unitCost = product.costPrice of the row the find
\* loaded; totalPrice, totalCost, profit; create(Sale, {... status: "pending"})
NewSale(r) ==
  LET unitPrice == r.snapRow.price
      unitCost == r.snapRow.costPrice
      totalPrice == unitPrice * r.qty
      totalCost == unitCost * r.qty
  IN [saleNumber |-> SaleNumberOf(r.snapCount), product |-> r.product, qtySold |-> r.qty,
      unitPrice |-> unitPrice, unitCost |-> unitCost, totalPrice |-> totalPrice,
      totalCost |-> totalCost, profit |-> totalPrice - totalCost,
      status |-> "pending", soldBy |-> r.actor, approvedBy |-> "", approvedAt |-> 0,
      notes |-> ""]

\* a stock-movement row; `sale` is the sale number its reason names, none for
\* a manual movement
Movement(pid, type, quantity, by, sale) ==
  [product |-> pid, type |-> type, quantity |-> quantity, by |-> by, sale |-> sale]

\* the catch block does not roll back: the stock update made before the
\* failing insert stays
createSale_commit_noRollback(p) ==
  /\ req[p].kind = "create" /\ req[p].pc = "write"
  /\ LET r == req[p] IN
     IF \E s \in SaleIds : sales[s].saleNumber = SaleNumberOf(r.snapCount)
     THEN /\ Respond(p, Rep(r, "error"))
          /\ product' = [product EXCEPT ![r.product].qtyInStock = r.snapQty - r.qty]
          /\ UNCHANGED <<sales, movements>>
     ELSE /\ sales' = Append(sales, NewSale(r))
          /\ product' = [product EXCEPT ![r.product].qtyInStock = r.snapQty - r.qty]
          /\ movements' =
               IF r.via = "EnhancedSaleController.createSale"
               THEN Append(movements, Movement(r.product, "out", r.qty, r.actor,
                                              SaleNumberOf(r.snapCount)))
               ELSE movements
          /\ req' = [req EXCEPT ![p] = Idle]
          /\ lastReply' = Rep([r EXCEPT !.sale = Len(sales) + 1, !.committed = TRUE],
                              "success")
          /\ okReplies' = Append(okReplies, 0)
  /\ UNCHANGED <<started, emitted, adminCount, socket>>

\* the saleNumber column is not unique: the insert always succeeds
createSale_commit_noUnique(p) ==
  /\ req[p].kind = "create" /\ req[p].pc = "write"
  /\ LET r == req[p] IN
     /\ sales' = Append(sales, NewSale(r))
     /\ product' = [product EXCEPT ![r.product].qtyInStock = r.snapQty - r.qty]
     /\ movements' =
          IF r.via = "EnhancedSaleController.createSale"
          THEN Append(movements, Movement(r.product, "out", r.qty, r.actor,
                                          SaleNumberOf(r.snapCount)))
          ELSE movements
     /\ req' = [req EXCEPT ![p] = Idle]
     /\ lastReply' = Rep([r EXCEPT !.sale = Len(sales) + 1, !.committed = TRUE],
                         "success")
     /\ okReplies' = Append(okReplies, 0)
  /\ UNCHANGED <<started, emitted, adminCount, socket>>

\* save(sale), update(Product, {qtyInStock: product.qtyInStock - qtySold}),
\* save(stockMovement) (createSale only), commit; a duplicate saleNumber
\* violates the unique column and the catch block rolls back
createSale_commit(p) ==
  /\ req[p].kind = "create" /\ req[p].pc = "write"
  /\ LET r == req[p] IN
     IF \E s \in SaleIds : sales[s].saleNumber = SaleNumberOf(r.snapCount)
     THEN /\ Respond(p, [Rep(r, "error") EXCEPT !.cause = "duplicate saleNumber"])
          /\ UNCHANGED store
     ELSE /\ sales' = Append(sales, NewSale(r))
          /\ product' = [product EXCEPT ![r.product].qtyInStock = r.snapQty - r.qty]
          /\ movements' =
               IF r.via = "EnhancedSaleController.createSale"
               THEN Append(movements, Movement(r.product, "out", r.qty, r.actor,
                                              SaleNumberOf(r.snapCount)))
               ELSE movements
          /\ req' = [req EXCEPT ![p] = Idle]
          /\ lastReply' = Rep([r EXCEPT !.sale = Len(sales) + 1, !.committed = TRUE],
                              "success")
          /\ okReplies' = Append(okReplies, 0)
  /\ UNCHANGED <<started, emitted, adminCount, socket>>

\* ------------------------------------------------------- approve and reject
\* the `difference` of an event whose payload has no such field
NoDelta == MaxBatch + 1

\* an emitted event: its room, its name, and of its payload the type (the
\* action of a count update), the sale, the count, the difference, the reason
\* and stockRestored; "" and 0 stand for a field the payload does not have
Event(room, name, type, sale, count) ==
  [room |-> room, name |-> name, type |-> type, sale |-> sale, count |-> count,
   difference |-> NoDelta, reason |-> "", stockRestored |-> 0]

\* the status of the sale that was found is not looked at
FindSale_noStatusCheck(p, r0) ==
  IF r0.sale \notin SaleIds
  THEN Respond(p, Rep(r0, "SaleNotFound"))
  ELSE Continue(p, [r0 EXCEPT !.pc = "write",
                              !.snapQty = product[sales[r0.sale].product].qtyInStock])

\* findOne(Sale) and the two checks every approve and reject handler makes:
\* "Sale not found", then sale.status !== "pending"; both return without a write.
\* The sale is loaded with its product row (relations: ["product"]).
FindSale(p, r0) ==
  IF r0.sale \notin SaleIds
  THEN Respond(p, Rep(r0, "SaleNotFound"))
  ELSE IF sales[r0.sale].status # "pending"
  THEN Respond(p, Rep(r0, "InvalidTransition"))
  ELSE Continue(p, [r0 EXCEPT !.pc = "write",
                              !.snapQty = product[sales[r0.sale].product].qtyInStock])

\* the approval recomputes the sale's amounts from the product's current price
ApprovedRow_repriced(row, r) ==
  [row EXCEPT !.status = "approved", !.approvedBy = r.actor, !.approvedAt = started,
              !.notes = IF r.text # "" THEN r.text ELSE @,
              !.unitPrice = product[row.product].price,
              !.totalPrice = product[row.product].price * row.qtySold,
              !.profit = product[row.product].price * row.qtySold - row.totalCost]

\* sale.status = "approved"; approvedBy; approvedAt = new Date(); if (notes)
\* sale.notes = notes; save(sale).  The clock is the number of requests so far.
ApprovedRow(row, r) ==
  [row EXCEPT !.status = "approved", !.approvedBy = r.actor, !.approvedAt = started,
              !.notes = IF r.text # "" THEN r.text ELSE @]

\* update(Product, {totalSales: totalSales + totalPrice, totalProfit: totalProfit + profit,
\* lastSaleDate: new Date()}); the clock is the number of requests so far
AddAggregates(prod, row) ==
  [prod EXCEPT !.totalSales = @ + row.totalPrice, !.totalProfit = @ + row.profit,
               !.lastSaleDate = started]

\* the writes of an approve transaction, visible at its commit
ApproveWrites(r) ==
  LET row == sales[r.sale] IN
  /\ sales' = [sales EXCEPT ![r.sale] = ApprovedRow(row, r)]
  /\ product' = [product EXCEPT ![row.product] = AddAggregates(@, row)]
  /\ UNCHANGED movements

\* sale.status = "rejected"; approvedBy; approvedAt = new Date();
\* sale.notes = reason; save(sale)
RejectedRow(row, r) ==
  [row EXCEPT !.status = "rejected", !.approvedBy = r.actor, !.approvedAt = started,
              !.notes = r.text]

\* the stock gets one unit back, whatever the quantity of the sale
RestoreStock_oneUnit(prod, row) == [prod EXCEPT !.qtyInStock = @ + 1]

\* update(Product, {qtyInStock: () => `qtyInStock + ${sale.qtySold}`})
RestoreStock(prod, row) == [prod EXCEPT !.qtyInStock = @ + row.qtySold]

\* the writes of a reject transaction of AdminController.rejectSale and
\* reject_sale_realtime, visible at its commit
RejectWrites(r) ==
  LET row == sales[r.sale] IN
  /\ sales' = [sales EXCEPT ![r.sale] = RejectedRow(row, r)]
  /\ product' = [product EXCEPT ![row.product] = RestoreStock(@, row)]
  /\ movements' = Append(movements, Movement(row.product, "in", row.qtySold, r.actor,
                                         row.saleNumber))

\* the status event goes to the room of every employee
StatusEvents_toEveryEmployee(r, type) ==
  emitted' = emitted (+) SetToBag(
    {Event(EmployeeRoom(u), "sale_status_updated", type, r.sale, NoCount) : u \in EmployeeIds}
    \cup {Event(AdminRoom,
                IF type = "approved" THEN "sale_approved_broadcast" ELSE "sale_rejected_broadcast",
                type, r.sale, NoCount)})

\* the two emits that follow the commit of a single approve or reject
\* sale_status_updated {type, sale, notification} to the owner's room and
\* sale_approved_broadcast / sale_rejected_broadcast {saleId, ...}, which has
\* no type field, to the admin room; on a reject both carry reason and
\* stockRestored: sale.qtySold
StatusEvents(r, type) ==
  LET reason == IF type = "rejected" THEN r.text ELSE ""
      restored == IF type = "rejected" THEN sales[r.sale].qtySold ELSE 0
  IN Emit2([Event(EmployeeRoom(sales[r.sale].soldBy), "sale_status_updated", type,
                  r.sale, NoCount)
              EXCEPT !.reason = reason, !.stockRestored = restored],
           [Event(AdminRoom,
                  IF type = "approved" THEN "sale_approved_broadcast"
                                       ELSE "sale_rejected_broadcast",
                  "", r.sale, NoCount)
              EXCEPT !.reason = reason, !.stockRestored = restored])

\* emit pending_count_updated {count, action, difference}; the realtime
\* handlers send no difference
PushCount(r, action, difference) ==
  /\ Emit([Event(AdminRoom, "pending_count_updated", action, r.sale, r.count)
             EXCEPT !.difference = difference])
  /\ adminCount' = r.count

\* HTTP handlers wrap the fan-out in an inner try: a socketError is caught and
\* logged, and the handler goes on to res.json({success: true}).  A request
\* without req.io skips the fan-out (if (req.io)) and ends the same way.
HttpCatch(p) == Respond(p, Rep([req[p] EXCEPT !.committed = TRUE], "success"))

\* The catch block of a realtime handler runs rollbackTransaction() on a
\* transaction that is already committed: it either throws (no acknowledgment
\* is ever sent) or returns and the callback reports the failure.
RealtimeCatch(p) ==
  \E res \in {"error", "noreply"} :
    Respond(p, Rep([req[p] EXCEPT !.committed = TRUE], res))

\* AdminController.approveSale (HTTP): role check, find, status check
approveSale_find(p) ==
  /\ Free(p)
  /\ \E u \in Users, s \in SaleIdsIn, notes \in NotesIn :
       LET r0 == [Idle EXCEPT !.kind = "approve", !.via = "AdminController.approveSale",
                              !.actor = u, !.sale = s, !.text = notes]
       IN IF ~IsAdmin(u) THEN Respond(p, Rep(r0, "Unauthorized")) ELSE FindSale(p, r0)
  /\ started' = started + 1
  /\ UNCHANGED <<store, emitted, adminCount, socket>>

\* save(sale), update(Product), commit, then the emits to the employee room and
\* the admin room
approveSale_commit(p) ==
  /\ At(p, "AdminController.approveSale", "write")
  /\ ApproveWrites(req[p])
  /\ \/ /\ StatusEvents(req[p], "approved")
        /\ Continue(p, [req[p] EXCEPT !.pc = "count", !.committed = TRUE])
     \/ /\ UNCHANGED emitted
        /\ HttpCatch(p)
  /\ UNCHANGED <<started, adminCount, socket>>

\* the count is the fresh count with the difference of -1 applied to it
approveSale_count_minusOne(p) ==
  /\ At(p, "AdminController.approveSale", "count")
  /\ \/ Continue(p, [req[p] EXCEPT !.pc = "push", !.count = PendingCount - 1])
     \/ HttpCatch(p)
  /\ UNCHANGED <<store, started, emitted, adminCount, socket>>

\* getRepository(Sale).count({status: "pending"}) on the committed rows
approveSale_count(p) ==
  /\ At(p, "AdminController.approveSale", "count")
  /\ \/ Continue(p, [req[p] EXCEPT !.pc = "push", !.count = PendingCount])
     \/ HttpCatch(p)
  /\ UNCHANGED <<store, started, emitted, adminCount, socket>>

\* emit pending_count_updated {count, action: "approved", difference: -1}; res.json
approveSale_push(p) ==
  /\ At(p, "AdminController.approveSale", "push")
  /\ PushCount(req[p], "approved", 0 - 1)
  /\ Respond(p, Rep(req[p], "success"))
  /\ UNCHANGED <<store, started, socket>>

\* approve_sale_realtime: role check, find, status check
approve_sale_realtime_find(p) ==
  /\ Free(p)
  /\ \E c \in Connections, s \in SaleIdsIn, notes \in NotesIn :
       LET r0 == WithSocketUser([Idle EXCEPT !.kind = "approve",
                                             !.via = "approve_sale_realtime",
                                             !.conn = c, !.sale = s, !.text = notes])
       IN IF ~JoinedAsAdmin(c) THEN Respond(p, Rep(r0, "Unauthorized")) ELSE FindSale(p, r0)
  /\ started' = started + 1
  /\ UNCHANGED <<store, emitted, adminCount, socket>>

\* the emits are in the handler's main try: a throw reaches its catch
approve_sale_realtime_commit(p) ==
  /\ At(p, "approve_sale_realtime", "write")
  /\ ApproveWrites(WithSocketUser(req[p]))
  /\ \/ /\ StatusEvents(req[p], "approved")
        /\ Continue(p, [req[p] EXCEPT !.pc = "count", !.committed = TRUE])
     \/ /\ UNCHANGED emitted
        /\ RealtimeCatch(p)
  /\ UNCHANGED <<started, adminCount, socket>>

approve_sale_realtime_count(p) ==
  /\ At(p, "approve_sale_realtime", "count")
  /\ \/ Continue(p, [req[p] EXCEPT !.pc = "push", !.count = PendingCount])
     \/ RealtimeCatch(p)
  /\ UNCHANGED <<store, started, emitted, adminCount, socket>>

approve_sale_realtime_push(p) ==
  /\ At(p, "approve_sale_realtime", "push")
  /\ PushCount(req[p], "approved", NoDelta)
  /\ Respond(p, Rep(req[p], "success"))
  /\ UNCHANGED <<store, started, socket>>

\* SaleController.approveSale (PATCH /sales/:id/approve): any authenticated
\* user; find, status check
SaleController_approveSale_find(p) ==
  /\ Free(p)
  /\ \E u \in Users, s \in SaleIdsIn :
       FindSale(p, [Idle EXCEPT !.kind = "approve", !.via = "SaleController.approveSale",
                                !.actor = u, !.sale = s])
  /\ started' = started + 1
  /\ UNCHANGED <<store, emitted, adminCount, socket>>

\* update(Sale, id, {status, approvedBy}): approvedAt is not written;
\* update(Product), commit; no emit
SaleController_approveSale_commit(p) ==
  /\ At(p, "SaleController.approveSale", "write")
  /\ LET row == sales[req[p].sale] IN
     /\ sales' = [sales EXCEPT ![req[p].sale] =
                    [row EXCEPT !.status = "approved", !.approvedBy = req[p].actor]]
     /\ product' = [product EXCEPT ![row.product] = AddAggregates(@, row)]
     /\ UNCHANGED movements
  /\ Respond(p, Rep([req[p] EXCEPT !.committed = TRUE], "success"))
  /\ UNCHANGED <<started, emitted, adminCount, socket>>

\* AdminController.approveSale, earlier version: find, status check
AdminController_v1_approveSale_find(p) ==
  /\ Free(p)
  /\ \E u \in Admins, s \in SaleIdsIn :
       FindSale(p, [Idle EXCEPT !.kind = "approve", !.via = "AdminController.approveSale.v1",
                                !.actor = u, !.sale = s])
  /\ started' = started + 1
  /\ UNCHANGED <<store, emitted, adminCount, socket>>

\* saleRepository.save(sale): status, approvedBy; the product row is not updated
AdminController_v1_approveSale_save(p) ==
  /\ At(p, "AdminController.approveSale.v1", "write")
  /\ sales' = [sales EXCEPT ![req[p].sale] = ApprovedRow(@, req[p])]
  /\ Respond(p, Rep([req[p] EXCEPT !.committed = TRUE], "success"))
  /\ UNCHANGED <<product, movements, started, emitted, adminCount, socket>>

\* AdminController.rejectSale (HTTP): role check, reason check, find, status check
rejectSale_find(p) ==
  /\ Free(p)
  /\ \E u \in Users, s \in SaleIdsIn, reason \in Reasons :
       LET r0 == [Idle EXCEPT !.kind = "reject", !.via = "AdminController.rejectSale",
                              !.actor = u, !.sale = s, !.text = reason]
       IN IF ~IsAdmin(u) THEN Respond(p, Rep(r0, "Unauthorized"))
          ELSE IF IsBlank(reason) THEN Respond(p, Rep(r0, "MissingReason"))
          ELSE FindSale(p, r0)
  /\ started' = started + 1
  /\ UNCHANGED <<store, emitted, adminCount, socket>>

rejectSale_commit(p) ==
  /\ At(p, "AdminController.rejectSale", "write")
  /\ RejectWrites(req[p])
  /\ \/ /\ StatusEvents(req[p], "rejected")
        /\ Continue(p, [req[p] EXCEPT !.pc = "count", !.committed = TRUE])
     \/ /\ UNCHANGED emitted
        /\ HttpCatch(p)
  /\ UNCHANGED <<started, adminCount, socket>>

rejectSale_count(p) ==
  /\ At(p, "AdminController.rejectSale", "count")
  /\ \/ Continue(p, [req[p] EXCEPT !.pc = "push", !.count = PendingCount])
     \/ HttpCatch(p)
  /\ UNCHANGED <<store, started, emitted, adminCount, socket>>

rejectSale_push(p) ==
  /\ At(p, "AdminController.rejectSale", "push")
  /\ PushCount(req[p], "rejected", 0 - 1)
  /\ Respond(p, Rep(req[p], "success"))
  /\ UNCHANGED <<store, started, socket>>

\* reject_sale_realtime: role check, reason check, find, status check
reject_sale_realtime_find(p) ==
  /\ Free(p)
  /\ \E c \in Connections, s \in SaleIdsIn, reason \in Reasons :
       LET r0 == WithSocketUser([Idle EXCEPT !.kind = "reject",
                                             !.via = "reject_sale_realtime",
                                             !.conn = c, !.sale = s, !.text = reason])
       IN IF ~JoinedAsAdmin(c) THEN Respond(p, Rep(r0, "Unauthorized"))
          ELSE IF IsBlank(reason) THEN Respond(p, Rep(r0, "MissingReason"))
          ELSE FindSale(p, r0)
  /\ started' = started + 1
  /\ UNCHANGED <<store, emitted, adminCount, socket>>

reject_sale_realtime_commit(p) ==
  /\ At(p, "reject_sale_realtime", "write")
  /\ RejectWrites(WithSocketUser(req[p]))
  /\ \/ /\ StatusEvents(req[p], "rejected")
        /\ Continue(p, [req[p] EXCEPT !.pc = "count", !.committed = TRUE])
     \/ /\ UNCHANGED emitted
        /\ RealtimeCatch(p)
  /\ UNCHANGED <<started, adminCount, socket>>

reject_sale_realtime_count(p) ==
  /\ At(p, "reject_sale_realtime", "count")
  /\ \/ Continue(p, [req[p] EXCEPT !.pc = "push", !.count = PendingCount])
     \/ RealtimeCatch(p)
  /\ UNCHANGED <<store, started, emitted, adminCount, socket>>

reject_sale_realtime_push(p) ==
  /\ At(p, "reject_sale_realtime", "push")
  /\ PushCount(req[p], "rejected", NoDelta)
  /\ Respond(p, Rep(req[p], "success"))
  /\ UNCHANGED <<store, started, socket>>

\* SaleController.rejectSale (PATCH /sales/:id/reject): any authenticated user,
\* no reason in the request; find, status check
SaleController_rejectSale_find(p) ==
  /\ Free(p)
  /\ \E u \in Users, s \in SaleIdsIn :
       FindSale(p, [Idle EXCEPT !.kind = "reject", !.via = "SaleController.rejectSale",
                                !.actor = u, !.sale = s])
  /\ started' = started + 1
  /\ UNCHANGED <<store, emitted, adminCount, socket>>

\* update(Product, qtyInStock + qtySold), update(Sale, id, {status, approvedBy}),
\* commit; no notes, no stock movement, no emit
SaleController_rejectSale_commit(p) ==
  /\ At(p, "SaleController.rejectSale", "write")
  /\ LET r == req[p]
         row == sales[r.sale]
     IN /\ sales' = [sales EXCEPT ![r.sale] =
                       [row EXCEPT !.status = "rejected", !.approvedBy = r.actor]]
        /\ product' = [product EXCEPT ![row.product] = RestoreStock(@, row)]
        /\ Respond(p, Rep([r EXCEPT !.committed = TRUE], "success"))
  /\ UNCHANGED <<movements, started, emitted, adminCount, socket>>

\* AdminController.rejectSale, earlier version: no reason check; find, status check
AdminController_v1_rejectSale_find(p) ==
  /\ Free(p)
  /\ \E u \in Admins, s \in SaleIdsIn, reason \in Reasons :
       FindSale(p, [Idle EXCEPT !.kind = "reject", !.via = "AdminController.rejectSale.v1",
                                !.actor = u, !.sale = s, !.text = reason])
  /\ started' = started + 1
  /\ UNCHANGED <<store, emitted, adminCount, socket>>

\* approvedBy; approvedAt = new Date(); sale.notes = reason || "Sale rejected by admin"; save(sale);
\* update(Product, {qtyInStock: sale.product.qtyInStock + sale.qtySold}) with
\* the product row as loaded by the find; commit; no stock movement, no emit
AdminController_v1_rejectSale_commit(p) ==
  /\ At(p, "AdminController.rejectSale.v1", "write")
  /\ LET r == req[p]
         row == sales[r.sale]
     IN /\ sales' = [sales EXCEPT ![r.sale] =
                       [row EXCEPT !.status = "rejected", !.approvedBy = r.actor,
                                   !.approvedAt = started,
                                   !.notes = IF r.text = "" THEN DefaultReason ELSE r.text]]
        /\ product' = [product EXCEPT ![row.product].qtyInStock = r.snapQty + row.qtySold]
        /\ Respond(p, Rep([r EXCEPT !.committed = TRUE], "success"))
  /\ UNCHANGED <<movements, started, emitted, adminCount, socket>>

\* ------------------------------------------------------------ bulk approval
\* the ID lists of a bulk approval, the empty list included
BatchLists ==
  UNION {[1..n -> SaleIdsIn] : n \in 0..MaxBatch}

Result(saleId, success, committed) ==
  [saleId |-> saleId, success |-> success, committed |-> committed]

\* the loop goes to the next ID, or leaves for the count query
NextItem(r) ==
  [r EXCEPT !.pc = IF Len(r.results) < Len(r.ids) THEN "find" ELSE "count",
            !.sale = 0]

\* results.push({saleId, success: false, error}); failureCount++
ItemFailed(r, committed) ==
  NextItem([r EXCEPT !.results = Append(@, Result(r.sale, FALSE, committed)),
                     !.fail = @ + 1])

\* results.push({saleId, success: true, data}); successCount++
ItemApproved(r) ==
  NextItem([r EXCEPT !.results = Append(@, Result(r.sale, TRUE, TRUE)),
                     !.succ = @ + 1, !.committed = TRUE])

\* findOne(Sale) of the current ID: "Sale not found" and `Sale is ${status}`
\* are recorded as failed items and the loop continues
BulkFind(p, r0) ==
  LET r == [r0 EXCEPT !.sale = r0.ids[Len(r0.results) + 1]] IN
  IF r.sale \notin SaleIds \/ sales[r.sale].status # "pending"
  THEN Continue(p, ItemFailed(r, FALSE))
  ELSE Continue(p, [r EXCEPT !.pc = "write"])

\* AdminController.bulkApproveSales (HTTP): role check, Array.isArray/length check;
\* the request comes with or without req.io
bulkApproveSales_start(p) ==
  /\ Free(p)
  /\ \E u \in Users, ids \in BatchLists, io \in BOOLEAN :
       LET r0 == [Idle EXCEPT !.kind = "bulk", !.via = "AdminController.bulkApproveSales",
                              !.actor = u, !.ids = ids, !.io = io]
       IN IF ~IsAdmin(u) THEN Respond(p, Rep(r0, "Unauthorized"))
          ELSE IF Len(ids) = 0 THEN Respond(p, Rep(r0, "EmptyList"))
          ELSE Continue(p, [r0 EXCEPT !.pc = "find"])
  /\ started' = started + 1
  /\ UNCHANGED <<store, emitted, adminCount, socket>>

bulkApproveSales_find(p) ==
  /\ At(p, "AdminController.bulkApproveSales", "find")
  /\ BulkFind(p, req[p])
  /\ UNCHANGED <<store, started, emitted, adminCount, socket>>

\* save(sale), update(Product), commit, then the emit to the employee room
\* inside the item's try: a throw reaches the item's catch, whose
\* rollbackTransaction() on the committed transaction either returns (the item
\* is recorded as failed) or throws into the outer catch (status 500)
bulkApproveSales_commit(p) ==
  /\ At(p, "AdminController.bulkApproveSales", "write")
  /\ ApproveWrites(req[p])
  /\ IF req[p].io
     THEN \/ /\ Emit(Event(EmployeeRoom(sales[req[p].sale].soldBy), "sale_status_updated",
                          "approved", req[p].sale, NoCount))
             /\ Continue(p, ItemApproved(req[p]))
          \/ /\ UNCHANGED emitted
             /\ \/ Continue(p, ItemFailed([req[p] EXCEPT !.committed = TRUE], TRUE))
                \/ Respond(p, Rep([req[p] EXCEPT !.committed = TRUE, !.sale = 0], "error"))
     ELSE /\ UNCHANGED emitted
          /\ Continue(p, ItemApproved(req[p]))
  /\ UNCHANGED <<started, adminCount, socket>>

\* if (req.io): saleRepository.count({status: "pending"}), a throw reaches the
\* outer catch; without req.io the handler goes to res.json
bulkApproveSales_count(p) ==
  /\ At(p, "AdminController.bulkApproveSales", "count")
  /\ IF req[p].io
     THEN \/ Continue(p, [req[p] EXCEPT !.pc = "push", !.count = PendingCount])
          \/ Respond(p, Rep(req[p], "error"))
     ELSE Respond(p, Rep(req[p], "success"))
  /\ UNCHANGED <<store, started, emitted, adminCount, socket>>

\* emit bulk_approval_completed and pending_count_updated {count, action,
\* difference: -successCount}; res.json
bulkApproveSales_push(p) ==
  /\ At(p, "AdminController.bulkApproveSales", "push")
  /\ emitted' = (emitted
                 (+) SetToBag({Event(AdminRoom, "bulk_approval_completed", "bulk_approved",
                                     0, req[p].count)}))
                 (+) SetToBag({[Event(AdminRoom, "pending_count_updated", "bulk_approved",
                                      0, req[p].count)
                                 EXCEPT !.difference = 0 - req[p].succ]})
  /\ adminCount' = req[p].count
  /\ Respond(p, Rep(req[p], "success"))
  /\ UNCHANGED <<store, started, socket>>

\* bulk_approve_sales (realtime): role check; the list is not checked
bulk_approve_sales_start(p) ==
  /\ Free(p)
  /\ \E c \in Connections, ids \in BatchLists :
       LET r0 == WithSocketUser([Idle EXCEPT !.kind = "bulk", !.via = "bulk_approve_sales",
                                             !.conn = c, !.ids = ids])
       IN IF ~JoinedAsAdmin(c) THEN Respond(p, Rep(r0, "Unauthorized"))
          ELSE Continue(p, NextItem(r0))
  /\ started' = started + 1
  /\ UNCHANGED <<store, emitted, adminCount, socket>>

\* approveSaleById: find, status check
approveSaleById_find(p) ==
  /\ At(p, "bulk_approve_sales", "find")
  /\ BulkFind(p, WithSocketUser(req[p]))
  /\ UNCHANGED <<store, started, emitted, adminCount, socket>>

\* approveSaleById commits; then successCount++ and emitSaleApprovalNotification:
\* a throw of the emit reaches the loop's catch, which counts the same item in
\* failureCount and records it as failed
approveSaleById_commit(p) ==
  /\ At(p, "bulk_approve_sales", "write")
  /\ ApproveWrites(req[p])
  /\ \/ /\ Emit(Event(EmployeeRoom(sales[req[p].sale].soldBy), "sale_status_updated",
                      "approved", req[p].sale, NoCount))
        /\ Continue(p, ItemApproved(req[p]))
     \/ /\ UNCHANGED emitted
        /\ Continue(p, ItemFailed([req[p] EXCEPT !.succ = @ + 1, !.committed = TRUE], TRUE))
  /\ UNCHANGED <<started, adminCount, socket>>

\* getRepository(Sale).count after the loop, outside any try: a throw leaves the
\* command without acknowledgment
bulk_approve_sales_count(p) ==
  /\ At(p, "bulk_approve_sales", "count")
  /\ \/ Continue(p, [req[p] EXCEPT !.pc = "push", !.count = PendingCount])
     \/ Respond(p, Rep(req[p], "noreply"))
  /\ UNCHANGED <<store, started, emitted, adminCount, socket>>

\* emit pending_count_updated {count, action: "bulk_approved"}; callback
bulk_approve_sales_push(p) ==
  /\ At(p, "bulk_approve_sales", "push")
  /\ PushCount(req[p], "bulk_approved", NoDelta)
  /\ Respond(p, Rep(req[p], "success"))
  /\ UNCHANGED <<store, started, socket>>

\* ---------------------------------------------------- manual stock movement
\* StockMovementController.recordStockMovement: find the product, check the
\* stock for an outbound movement
recordStockMovement_find(p) ==
  /\ Free(p)
  /\ \E u \in Admins, pid \in ProductIdsIn, type \in {"in", "out"}, q \in 0..MaxQty :
       LET r0 == [Idle EXCEPT !.kind = "stock", !.via = "recordStockMovement",
                              !.actor = u, !.product = pid, !.qty = q, !.mtype = type]
       IN IF ~ValidQuantity(q)
          THEN Respond(p, Rep(r0, "ValidationError"))
          ELSE IF pid \notin Products
          THEN Respond(p, Rep(r0, "ProductNotFound"))
          ELSE IF type = "out" /\ InsufficientStock(product[pid].qtyInStock, q)
          THEN Respond(p, [Rep(r0, "InsufficientStock") EXCEPT
                             !.available = product[pid].qtyInStock, !.requested = q])
          ELSE /\ type = "in" => product[pid].qtyInStock + q <= MaxStock
               /\ Continue(p, [r0 EXCEPT !.pc = "write",
                                         !.snapQty = product[pid].qtyInStock])
  /\ started' = started + 1
  /\ UNCHANGED <<store, emitted, adminCount, socket>>

\* save(stockMovement); update(Product, {qtyInStock: newStock}) with newStock
\* computed from the product row as loaded by the find; commit
recordStockMovement_commit(p) ==
  /\ At(p, "recordStockMovement", "write")
  /\ LET r == req[p] IN
     /\ movements' = Append(movements, Movement(r.product, r.mtype, r.qty, r.actor, NoSaleNumber))
     /\ product' = [product EXCEPT ![r.product].qtyInStock =
                      IF r.mtype = "in" THEN r.snapQty + r.qty ELSE r.snapQty - r.qty]
     /\ Respond(p, Rep([r EXCEPT !.committed = TRUE], "success"))
  /\ UNCHANGED <<sales, started, emitted, adminCount, socket>>

\* ------------------------------------------------------------ product update
\* ProductController.updateProduct: findOne(Product); the row is kept as loaded
updateProduct_find(p) ==
  /\ Free(p)
  /\ \E u \in Admins, pid \in ProductIdsIn :
       LET r0 == [Idle EXCEPT !.kind = "product", !.via = "updateProduct",
                              !.actor = u, !.product = pid]
       IN IF pid \notin Products
          THEN Respond(p, Rep(r0, "ProductNotFound"))
          ELSE Continue(p, [r0 EXCEPT !.pc = "write", !.snapRow = product[pid]])
  /\ started' = started + 1
  /\ UNCHANGED <<store, emitted, adminCount, socket>>

\* product.price = price; product.costPrice = costPrice; productRepository.save(product):
\* save() reloads the row and updates every column in which the entity differs
\* from it, so the columns of the entity as loaded by the find are written too
updateProduct_save(p) ==
  /\ At(p, "updateProduct", "write")
  /\ product' = [product EXCEPT ![req[p].product] =
                   [req[p].snapRow EXCEPT !.price = NewPrice, !.costPrice = NewCostPrice]]
  /\ Respond(p, Rep([req[p] EXCEPT !.committed = TRUE, !.snapRow = NoRow], "success"))
  /\ UNCHANGED <<sales, movements, started, emitted, adminCount, socket>>

\* --------------------------------------------------- failure before a commit
\* A write of a handler's transaction throws before commitTransaction(): the
\* catch block runs rollbackTransaction(), none of the transaction's writes
\* becomes visible, and the handler answers with its failure.
catch_rollbackTransaction(p) ==
  /\ req[p].pc = "write"
  /\ req[p].kind \in {"create", "approve", "reject", "stock"}
  /\ req[p].via # "AdminController.approveSale.v1"
  /\ Respond(p, Rep(req[p], "error"))
  /\ UNCHANGED <<store, started, emitted, adminCount, socket>>

\* AdminController.approveSale, earlier version: its one write,
\* saleRepository.save(sale), throws; the catch block answers with status 500
AdminController_v1_approveSale_catch(p) ==
  /\ At(p, "AdminController.approveSale.v1", "write")
  /\ Respond(p, Rep(req[p], "error"))
  /\ UNCHANGED <<store, started, emitted, adminCount, socket>>

\* AdminController.bulkApproveSales: a write of the item's transaction throws;
\* the item's catch rolls back, records the item as failed, and the loop goes on
bulkApproveSales_rollback(p) ==
  /\ At(p, "AdminController.bulkApproveSales", "write")
  /\ Continue(p, ItemFailed(req[p], FALSE))
  /\ UNCHANGED <<store, started, emitted, adminCount, socket>>

\* approveSaleById: a write throws; the catch rolls back and returns
\* {success: false}, which the loop records as a failed item
approveSaleById_rollback(p) ==
  /\ At(p, "bulk_approve_sales", "write")
  /\ Continue(p, ItemFailed(req[p], FALSE))
  /\ UNCHANGED <<store, started, emitted, adminCount, socket>>

\* ------------------------------------------------------------ joining rooms
RecentLimit == 5

\* every join adds the connection to the admin room as well
JoinRooms_adminForAll(d) ==
  IF d.role = "admin" THEN {AdminRoom, UserRoom(d.userId)}
  ELSE IF d.role = "employee"
  THEN {AdminRoom, EmployeeRoom(d.userId), UserRoom(d.userId)}
  ELSE {}

\* the rooms join_sales_room adds the connection to, by the declared role
JoinRooms(d) ==
  IF d.role = "admin" THEN {AdminRoom, UserRoom(d.userId)}
  ELSE IF d.role = "employee" THEN {EmployeeRoom(d.userId), UserRoom(d.userId)}
  ELSE {}

\* find(Sale, {where: {soldBy}, order: {createdAt: "DESC"}}): the sales of u
\* among the first n rows, newest first
RECURSIVE SalesOf(_, _)
SalesOf(u, n) ==
  IF n = 0 THEN <<>>
  ELSE (IF sales[n].soldBy = u THEN <<n>> ELSE <<>>) \o SalesOf(u, n - 1)

\* take: 5
RecentSales(u) ==
  LET all == SalesOf(u, Len(sales))
  IN SubSeq(all, 1, IF Len(all) < RecentLimit THEN Len(all) ELSE RecentLimit)

\* a message sent to one connection with socket.emit
Message(name, success, role, count, list) ==
  [name |-> name, success |-> success, role |-> role, count |-> count, sales |-> list]

\* the handler of slot p ends without an acknowledgment callback
Finish(p) ==
  /\ req' = [req EXCEPT ![p] = Idle]
  /\ UNCHANGED <<lastReply, okReplies>>

\* socket.on("join_sales_room"): socket.data.user = userData and the
\* socket.join calls, up to the first query
join_sales_room(p) ==
  /\ Free(p)
  /\ \E c \in Connections, d \in JoinData :
       /\ socket' = [socket EXCEPT ![c].user = d, ![c].rooms = @ \cup JoinRooms(d)]
       /\ Continue(p, [Idle EXCEPT !.kind = "join", !.via = "join_sales_room",
                                   !.pc = "query", !.conn = c, !.actor = d.userId,
                                   !.text = d.role])
  /\ started' = started + 1
  /\ UNCHANGED <<store, emitted, adminCount>>

\* count(Sale, {status: "pending"}) for an admin, the recent sales of an
\* employee
join_sales_room_query(p) ==
  /\ At(p, "join_sales_room", "query")
  /\ Continue(p, [req[p] EXCEPT
                    !.pc = "emit",
                    !.count = IF req[p].text = "admin" THEN PendingCount ELSE NoCount,
                    !.ids = IF req[p].text = "employee" THEN RecentSales(req[p].actor)
                            ELSE <<>>])
  /\ UNCHANGED <<store, started, emitted, adminCount, socket>>

\* socket.emit of initial_pending_count or recent_sales_status, then of
\* sales_room_joined; socket.to("admin_sales_room").emit("admin_online")
join_sales_room_emit(p) ==
  /\ At(p, "join_sales_room", "emit")
  /\ LET r == req[p]
         first == IF r.text = "admin"
                  THEN <<Message("initial_pending_count", TRUE, r.text, r.count, <<>>)>>
                  ELSE IF r.text = "employee"
                  THEN <<Message("recent_sales_status", TRUE, r.text, NoCount, r.ids)>>
                  ELSE <<>>
         joined == Message("sales_room_joined", TRUE, r.text, NoCount, <<>>)
     IN socket' = [socket EXCEPT
                     ![r.conn].received = (@ \o first) \o <<joined>>,
                     ![r.conn].announced = @ \/ r.text = "admin"]
  /\ Finish(p)
  /\ UNCHANGED <<store, started, emitted, adminCount>>

\* the query throws: the catch block sends sales_room_joined {success: false}
join_sales_room_catch(p) ==
  /\ At(p, "join_sales_room", "query")
  /\ socket' = [socket EXCEPT ![req[p].conn].received =
                   Append(@, Message("sales_room_joined", FALSE, req[p].text, NoCount, <<>>))]
  /\ Finish(p)
  /\ UNCHANGED <<store, started, emitted, adminCount>>

\* the commands of the realtime channel that change the store (socket.on)
RealtimeCommands == {"approve_sale_realtime", "reject_sale_realtime", "bulk_approve_sales"}

\* the HTTP operations of the current AdminController that they mirror
HttpOperations ==
  {"AdminController.approveSale", "AdminController.rejectSale",
   "AdminController.bulkApproveSales"}

Next ==
  \E p \in Procs :
    \/ createSale_findProduct(p)
    \/ createSale_count(p)
    \/ createSale_commit(p)
    \/ approveSale_find(p)
    \/ approveSale_commit(p)
    \/ approveSale_count(p)
    \/ approveSale_push(p)
    \/ approve_sale_realtime_find(p)
    \/ approve_sale_realtime_commit(p)
    \/ approve_sale_realtime_count(p)
    \/ approve_sale_realtime_push(p)
    \/ SaleController_approveSale_find(p)
    \/ SaleController_approveSale_commit(p)
    \/ AdminController_v1_approveSale_find(p)
    \/ AdminController_v1_approveSale_save(p)
    \/ rejectSale_find(p)
    \/ rejectSale_commit(p)
    \/ rejectSale_count(p)
    \/ rejectSale_push(p)
    \/ reject_sale_realtime_find(p)
    \/ reject_sale_realtime_commit(p)
    \/ reject_sale_realtime_count(p)
    \/ reject_sale_realtime_push(p)
    \/ SaleController_rejectSale_find(p)
    \/ SaleController_rejectSale_commit(p)
    \/ AdminController_v1_rejectSale_find(p)
    \/ AdminController_v1_rejectSale_commit(p)
    \/ bulkApproveSales_start(p)
    \/ bulkApproveSales_find(p)
    \/ bulkApproveSales_commit(p)
    \/ bulkApproveSales_count(p)
    \/ bulkApproveSales_push(p)
    \/ bulk_approve_sales_start(p)
    \/ approveSaleById_find(p)
    \/ approveSaleById_commit(p)
    \/ bulk_approve_sales_count(p)
    \/ bulk_approve_sales_push(p)
    \/ recordStockMovement_find(p)
    \/ recordStockMovement_commit(p)
    \/ updateProduct_find(p)
    \/ updateProduct_save(p)
    \/ catch_rollbackTransaction(p)
    \/ AdminController_v1_approveSale_catch(p)
    \/ bulkApproveSales_rollback(p)
    \/ approveSaleById_rollback(p)
    \/ join_sales_room(p)
    \/ join_sales_room_query(p)
    \/ join_sales_room_emit(p)
    \/ join_sales_room_catch(p)

Spec == Init /\ [][Next]_vars
\* ------------------------------------------------------------------ claims
\* every request slot is idle: no handler is between two of its steps
Quiescent == \A p \in Procs : req[p].pc = "idle"

\* the step is a whole invocation that returned at its first step
ImmediateReply == started' = started + 1 /\ req' = req

\* C1: of the approve and reject invocations on one sale, at most one is
\* answered with success; no sale gets two success replies.
C1_AtMostOneSuccess ==
  \A s \in DOMAIN okReplies : okReplies[s] <= 1

\* C2: in every reachable committed state the stock of every product is not
\* negative, whatever creates, rejects, approvals and manual stock movements
\* have committed and however their steps interleave.
C2_StockNeverNegative ==
  \A i \in Products : product[i].qtyInStock >= 0

\* the stock went down to zero by a sale, a rejection restored it, and a
\* manual outbound movement took it to zero again
C2_Witness ==
  /\ \A i \in Products : product[i].qtyInStock = 0
  /\ \E s \in SaleIds : sales[s].status = "rejected"
  /\ \E m \in DOMAIN movements : movements[m].sale = NoSaleNumber /\ movements[m].type = "out"

\* C3: a sale creation that asks for more than the stock is answered with
\* InsufficientStock carrying the available and the requested quantity, one
\* that names a product that does not exist with ProductNotFound; both leave
\* the stock, the sales and the movement log as they were, and no creation
\* with such an input goes on to its writes.
C3_FailedCreateLeavesStore ==
  [][ /\ (ImmediateReply /\ lastReply'.kind = "create" /\ ValidQuantity(lastReply'.qty)) =>
           /\ store' = store
           /\ lastReply'.product \notin Products =>
                lastReply'.result = "ProductNotFound"
           /\ lastReply'.product \in Products =>
                /\ lastReply'.qty > product[lastReply'.product].qtyInStock
                /\ lastReply'.result = "InsufficientStock"
                /\ lastReply'.available = product[lastReply'.product].qtyInStock
                /\ lastReply'.requested = lastReply'.qty
      /\ \A p \in Procs :
           (req[p].pc = "idle" /\ req'[p].kind = "create") =>
             /\ req'[p].product \in Products
             /\ req'[p].qty <= product[req'[p].product].qtyInStock
    ]_vars

\* a creation of more than the stock was refused while a sale exists
C3_Witness ==
  /\ lastReply.kind = "create"
  /\ lastReply.result = "InsufficientStock"
  /\ lastReply.requested > lastReply.available
  /\ lastReply.available = product[lastReply.product].qtyInStock
  /\ Len(sales) >= 1
\* the step is an approve or reject invocation that returned at its first
\* step and named a sale that is already approved or rejected
RepliedOnResolved ==
  /\ ImmediateReply
  /\ lastReply'.kind \in {"approve", "reject"}
  /\ lastReply'.sale \in SaleIds
  /\ sales[lastReply'.sale].status # "pending"

\* no approve or reject invocation goes past its first step on a sale that
\* is not pending
OnlyPendingGoesOn ==
  \A p \in Procs :
    (req[p].pc = "idle" /\ req'[p].kind \in {"approve", "reject"}) =>
      sales[req'[p].sale].status = "pending"

C5_CommittedReportsSuccess ==
  (lastReply.kind \in {"approve", "reject", "bulk"} /\ lastReply.committed) =>
    /\ lastReply.result = "success"
    /\ \A i \in DOMAIN lastReply.results :
         lastReply.results[i].committed => lastReply.results[i].success

\* the history is a creation and then one more request on that sale, nothing else
CreateThenOne(kind) ==
  /\ started = 2
  /\ Quiescent
  /\ Len(sales) = 1
  /\ lastReply.kind = kind
  /\ lastReply.sale = 1
  /\ lastReply.committed

C7_ApproveAddsAggregates ==
  CreateThenOne("approve") =>
    LET prod == product[sales[1].product] IN
    /\ sales[1].status = "approved"
    /\ prod.totalSales = sales[1].totalPrice
    /\ prod.totalProfit = sales[1].profit
    /\ prod.qtyInStock = InitStock - sales[1].qtySold
    /\ \A m \in DOMAIN movements : movements[m].type = "out"
    /\ Len(movements) <= 1
\* C8: at any quiescent point the pending count last pushed to the admin
\* room is the number of sales whose status is pending.
C8_QuiescentCountIsPending ==
  (Quiescent /\ adminCount # NoCount) => adminCount = PendingCount

\* the pending_count_updated events the step emits
NewCountEvents ==
  {e \in BagToSet(emitted') :
     e.name = "pending_count_updated" /\ CopiesIn(e, emitted') > CopiesIn(e, emitted)}

\* C9: every pending count that is pushed was read from the committed rows
\* after the commit of the transition that triggers the push, and is pushed
\* as read: it is the number of pending sales of a committed state at or
\* after that commit, never negative, never a count no state had.
C9_PushedCountWasCommitted ==
  [][ /\ \A p \in Procs :
           /\ (req[p].pc = "count" /\ req'[p].pc = "push") =>
                /\ req'[p].count = PendingCount
                /\ req[p].kind # "bulk" => req[p].committed
           /\ (req[p].pc = "push" /\ req'[p].pc = "push") =>
                req'[p].count = req[p].count
      /\ (adminCount' # adminCount \/ NewCountEvents # {}) =>
           \E p \in Procs :
              /\ req[p].pc = "push" /\ req'[p].pc = "idle"
              /\ adminCount' = req[p].count
              /\ \A e \in NewCountEvents : e.count = req[p].count
              /\ req[p].count >= 0
              /\ req[p].count <= Len(sales)
    ]_vars

\* a count was pushed that is the count of an earlier committed state: a
\* sale was created or resolved after the count was read
C9_Witness ==
  /\ adminCount >= 0
  /\ adminCount # PendingCount
  /\ \E e \in BagToSet(emitted) :
       e.name = "pending_count_updated" /\ e.count = adminCount

\* C10: a bulk approval that answers reports every ID of its list once: an
\* item is a success exactly when its sale was approved by the batch,
\* successCount and failureCount count the successes and the failures, and
\* their sum is the length of the list.
C10_BulkCountsEveryItem ==
  (lastReply.kind = "bulk" /\ lastReply.result \notin {"Unauthorized", "EmptyList"}) =>
    LET res == lastReply.results IN
    /\ lastReply.result = "success"
    /\ Len(res) = lastReply.total
    /\ \A i \in DOMAIN res : res[i].committed <=> res[i].success
    /\ lastReply.succ = Cardinality({i \in DOMAIN res : res[i].success})
    /\ lastReply.fail = Cardinality({i \in DOMAIN res : ~res[i].success})
    /\ lastReply.succ + lastReply.fail = lastReply.total
NewEvents(name) ==
  {e \in BagToSet(emitted') :
     e.name = name /\ CopiesIn(e, emitted') > CopiesIn(e, emitted)}

\* the number of events the step emits
EmittedByStep == BagCardinality(emitted') - BagCardinality(emitted)

\* C12: a bulk approval emits, for each item it records as approved, one
\* sale_status_updated (type approved) to the room of the sale's owner and
\* nothing for an item it records as failed; when the batch has completed
\* it emits exactly one bulk_approval_completed and one
\* pending_count_updated to the admin room, over HTTP and realtime alike.
C12_BulkEvents ==
  [][ \A p \in Procs :
        (req[p].kind = "bulk" /\ req'[p] # req[p]) =>
          /\ (req'[p].pc # "idle" /\ Len(req'[p].results) > Len(req[p].results)) =>
               LET it == req'[p].results[Len(req'[p].results)] IN
               IF it.success
               THEN /\ NewEvents("sale_status_updated") =
                         {Event(EmployeeRoom(sales[it.saleId].soldBy),
                                "sale_status_updated", "approved", it.saleId, NoCount)}
                    /\ EmittedByStep = 1
               ELSE emitted' = emitted
          /\ (req'[p].pc = "idle" /\ lastReply'.result = "success") =>
               /\ Cardinality(NewEvents("bulk_approval_completed")) = 1
               /\ Cardinality(NewEvents("pending_count_updated")) = 1
               /\ \A e \in NewEvents("bulk_approval_completed")
                           \cup NewEvents("pending_count_updated") : e.room = AdminRoom
               /\ EmittedByStep = 2
    ]_vars
\* C13: every committed sale creation is followed by a new_sale_pending
\* event to the admin room and a sale_created_success event to the room of
\* the employee who made the sale: once no handler is running, each sale
\* has both.
C13_CreationIsAnnounced ==
  Quiescent =>
    \A s \in SaleIds :
      /\ \E e \in BagToSet(emitted) :
           e.name = "new_sale_pending" /\ e.sale = s /\ e.room = AdminRoom
      /\ \E e \in BagToSet(emitted) :
           /\ e.name = "sale_created_success" /\ e.sale = s
           /\ e.room = EmployeeRoom(sales[s].soldBy)
\* C14: the commit of a single approve emits exactly one sale_status_updated
\* (type approved) to the room of the sale's owner and exactly one
\* sale_approved_broadcast to the admin room; an approve that is refused
\* emits nothing.
C14_ApproveEvents ==
  [][ /\ \A p \in Procs :
           (/\ req[p].kind = "approve" /\ req[p].pc = "write" /\ req'[p] # req[p]
            /\ sales'[req[p].sale].status = "approved") =>
             /\ NewEvents("sale_status_updated") =
                  {Event(EmployeeRoom(sales[req[p].sale].soldBy), "sale_status_updated",
                         "approved", req[p].sale, NoCount)}
             /\ NewEvents("sale_approved_broadcast") =
                  {Event(AdminRoom, "sale_approved_broadcast", "",
                         req[p].sale, NoCount)}
             /\ EmittedByStep = 2
      /\ (ImmediateReply /\ lastReply'.kind = "approve") => emitted' = emitted
    ]_vars
\* C15: every step that changes a product's qtyInStock appends, in the same
\* commit, exactly one stock movement for that product, of type 'out' when
\* the stock goes down and 'in' when it goes up, with the quantity of the
\* change.
C15_StockChangeHasMovement ==
  [][ \A i \in Products :
        product'[i].qtyInStock # product[i].qtyInStock =>
          /\ Len(movements') = Len(movements) + 1
          /\ SubSeq(movements', 1, Len(movements)) = movements
          /\ LET m == movements'[Len(movements')]
                 delta == product'[i].qtyInStock - product[i].qtyInStock
             IN /\ m.product = i
                /\ m.type = IF delta < 0 THEN "out" ELSE "in"
                /\ m.quantity = IF delta < 0 THEN 0 - delta ELSE delta
    ]_vars
\* C16: approved and rejected are terminal: no step changes the status of a
\* sale whose committed status is approved or rejected.
C16_ResolvedIsTerminal ==
  [][ \A s \in SaleIds :
        sales[s].status # "pending" => sales'[s].status = sales[s].status
    ]_vars
\* C17: a creation that commits inserts one sale with status pending whose
\* unitPrice and unitCost are the price and cost price of the product as the
\* creation read it, totalPrice = unitPrice * qtySold, totalCost = unitCost *
\* qtySold and profit = totalPrice - totalCost, and the committed stock of
\* the product goes down by exactly qtySold.
C17_CreateComputesSale ==
  [][ \A p \in Procs :
        (req[p].kind = "create" /\ Len(sales') > Len(sales) /\ req'[p] # req[p]) =>
          LET row == sales'[Len(sales')] IN
          /\ sales' = Append(sales, row)
          /\ row.status = "pending"
          /\ row.qtySold = req[p].qty
          /\ row.product = req[p].product
          /\ row.unitPrice = req[p].snapRow.price
          /\ row.unitCost = req[p].snapRow.costPrice
          /\ row.totalPrice = row.unitPrice * row.qtySold
          /\ row.totalCost = row.unitCost * row.qtySold
          /\ row.profit = row.totalPrice - row.totalCost
          /\ product'[row.product].qtyInStock =
               product[row.product].qtyInStock - row.qtySold
    ]_vars
\* the columns of a sale that are set at creation
Frozen(row) ==
  [saleNumber |-> row.saleNumber, product |-> row.product, qtySold |-> row.qtySold,
   unitPrice |-> row.unitPrice, unitCost |-> row.unitCost,
   totalPrice |-> row.totalPrice, totalCost |-> row.totalCost,
   profit |-> row.profit, soldBy |-> row.soldBy]

\* C18: after its creation no step (approve, reject, bulk approve, product
\* update, stock movement) changes a sale's qtySold, unitPrice, unitCost,
\* totalPrice, totalCost, profit, product or soldBy; only status, approvedBy
\* and notes change.
C18_SaleAmountsFrozen ==
  [][ \A s \in SaleIds : Frozen(sales'[s]) = Frozen(sales[s]) ]_vars

\* a sale was approved after the price of its product was changed, and it
\* keeps the price of its creation
C18_Witness ==
  \E s \in SaleIds :
     /\ sales[s].status = "approved"
     /\ product[sales[s].product].price = NewPrice
     /\ sales[s].unitPrice = Price
     /\ sales[s].totalPrice = Price * sales[s].qtySold
\* the running aggregates of a product row
Aggregates(prod) == <<prod.totalSales, prod.totalProfit, prod.lastSaleDate>>

\* C19: totalSales, totalProfit and lastSaleDate of a product change only in
\* the commit of an approve (single or bulk item); the commit of a creation
\* or of a rejection, and every other step, leaves them as they were.
C19_AggregatesOnlyOnApprove ==
  [][ \A i \in Products :
        Aggregates(product'[i]) # Aggregates(product[i]) =>
          \E p \in Procs :
             /\ req[p].kind \in {"approve", "bulk"}
             /\ req[p].pc = "write"
             /\ req'[p] # req[p]
             /\ sales[req[p].sale].product = i
    ]_vars
\* C20: on every reject entry point an admin's reject with no reason, an
\* empty reason or a whitespace-only reason is answered with MissingReason
\* at once and changes nothing in the store; no reject with such a reason
\* goes on to its writes.
C20_BlankReasonRefused ==
  [][ /\ (/\ ImmediateReply
          /\ lastReply'.kind = "reject"
          /\ IsAdmin(lastReply'.actor)
          /\ IsBlank(lastReply'.text)) =>
           (lastReply'.result = "MissingReason" /\ store' = store)
      /\ \A p \in Procs :
           (req[p].pc = "idle" /\ req'[p].kind = "reject") => ~IsBlank(req'[p].text)
    ]_vars
\* the step is a failure of the handler in slot p before its commit: the
\* handler ends with an error and nothing committed, or a bulk approval
\* records the current item as failed and not committed
FailsBeforeCommit(p) ==
  /\ req[p].pc = "write"
  /\ req'[p] # req[p]
  /\ IF req[p].kind = "bulk"
     THEN /\ req'[p].pc # "idle"
          /\ Len(req'[p].results) > Len(req[p].results)
          /\ ~req'[p].results[Len(req'[p].results)].committed
     ELSE /\ req'[p].pc = "idle"
          /\ lastReply'.result = "error"
          /\ ~lastReply'.committed

\* C21: an error raised inside a transition before its commit rolls the
\* whole transaction back: the step in which a create, approve, reject,
\* bulk item or stock movement fails before its commit leaves the sales, the
\* products and the movement log exactly as they were.
C21_FailureBeforeCommitLeavesStore ==
  [][ \A p \in Procs : FailsBeforeCommit(p) => store' = store ]_vars

\* a creation failed at its writes after another sale was committed, and the
\* stock and the movement log are those of the committed sales alone
C21_Witness ==
  /\ lastReply.kind = "create"
  /\ lastReply.result = "error"
  /\ ~lastReply.committed
  /\ Len(sales) = 1
  /\ Quiescent
  /\ started = 2
  /\ product[sales[1].product].qtyInStock = InitStock - sales[1].qtySold
  /\ Len(movements) <= 1
\* C22: the lifecycle operations behave the same over the realtime channel
\* as over HTTP.  A commit of approve_sale_realtime, reject_sale_realtime or
\* a bulk_approve_sales item writes what the commit of the HTTP operation
\* writes from the same state (status, approvedBy, notes, stock, aggregates,
\* movement), a batch goes on to its remaining IDs after a commit on both
\* transports, and sale creation is a command of the realtime channel too.
C22_RealtimeSameAsHttp ==
  [][ /\ \A p \in Procs :
           (/\ req[p].via \in RealtimeCommands \cup HttpOperations
            /\ req[p].pc = "write" /\ req'[p] # req[p] /\ store' # store) =>
             /\ req[p].kind \in {"approve", "bulk"} => ApproveWrites(req[p])
             /\ req[p].kind = "reject" => RejectWrites(req[p])
             /\ req[p].kind = "bulk" =>
                  (req'[p].pc = "idle" => Len(lastReply'.results) = Len(req[p].ids))
      /\ CreateVias \cap RealtimeCommands # {}
    ]_vars
\* C23: events about a sale's status are addressed only to the room of the
\* employee who owns the sale and to the admin room: every
\* sale_status_updated is in the owner's room, every other event is in the
\* admin room, and the room of an employee who does not own the sale holds
\* no event about it.
C23_StatusEventsOnlyToOwner ==
  \A e \in BagToSet(emitted) :
    /\ e.name = "sale_status_updated" =>
         /\ e.sale \in SaleIds
         /\ e.room = EmployeeRoom(sales[e.sale].soldBy)
    /\ e.name # "sale_status_updated" => e.room = AdminRoom
    /\ \A b \in EmployeeIds :
         e.room = EmployeeRoom(b) => (e.sale \in SaleIds /\ sales[e.sale].soldBy = b)

\* a sale was approved and another rejected, their owner's room holds both
\* status events, and the room of the other employee holds nothing
C23_Witness ==
  /\ \E e \in BagToSet(emitted) :
       /\ e.name = "sale_status_updated" /\ e.type = "approved"
       /\ e.room = EmployeeRoom(sales[e.sale].soldBy)
  /\ \E e \in BagToSet(emitted) :
       /\ e.name = "sale_status_updated" /\ e.type = "rejected"
       /\ e.room = EmployeeRoom(sales[e.sale].soldBy)
  /\ \A e \in BagToSet(emitted), b \in EmployeeIds \ Employees : e.room # EmployeeRoom(b)
\* the tag a pending-count update carries for each kind of operation
ActionTag(kind) ==
  IF kind = "approve" THEN "approved"
  ELSE IF kind = "reject" THEN "rejected" ELSE "bulk_approved"

\* C24: every approve, reject and bulk approval that answers with success
\* has pushed one pending_count_updated to the admin room, tagged with the
\* action that caused it (approved, rejected, bulk_approved) and carrying
\* the signed delta: -1 for a single resolution, -successCount for a batch.
C24_SuccessPushesTaggedCount ==
  [][ \A p \in Procs :
        (/\ req'[p] # req[p]
         /\ req'[p].pc = "idle"
         /\ lastReply'.kind \in {"approve", "reject", "bulk"}
         /\ lastReply'.result = "success") =>
          /\ Cardinality(NewEvents("pending_count_updated")) = 1
          /\ \A e \in NewEvents("pending_count_updated") :
               /\ e.room = AdminRoom
               /\ e.type = ActionTag(lastReply'.kind)
               /\ e.difference =
                    IF lastReply'.kind = "bulk" THEN 0 - lastReply'.succ ELSE 0 - 1
    ]_vars
\* the status event and the broadcast that the step emits for a rejection
NewRejectEvents ==
  {e \in NewEvents("sale_status_updated") : e.type = "rejected"}
    \cup NewEvents("sale_rejected_broadcast")

\* the reason and the restored quantity that the reject events of a step
\* carry: the reason the admin gave, and the sale's qtySold, which is what
\* the step adds to the stock of the sale's product
RejectEventsCarryReasonAndStock ==
  \A e \in NewRejectEvents :
    \E p \in Procs :
      /\ req[p].kind = "reject" /\ req[p].pc = "write" /\ req'[p] # req[p]
      /\ e.sale = req[p].sale
      /\ e.reason = req[p].text
      /\ ~IsBlank(e.reason)
      /\ e.stockRestored = sales[e.sale].qtySold
      /\ e.stockRestored = product'[sales[e.sale].product].qtyInStock
                             - product[sales[e.sale].product].qtyInStock

\* C25, as stated: on a reject the status event sent to the owner and the
\* rejected broadcast sent to the admin room both carry type = rejected, the
\* reason given by the admin and stockRestored equal to the sale's qtySold,
\* the quantity added back to the stock.
C25_RejectEventsCarryType ==
  [][ /\ RejectEventsCarryReasonAndStock
      /\ \A e \in NewRejectEvents : e.type = "rejected"
    ]_vars

\* C25, amended: on a reject the status event sent to the owner carries
\* type = rejected; the broadcast sent to the admin room is named
\* sale_rejected_broadcast and has no type field; both carry the reason
\* given by the admin and stockRestored equal to the sale's qtySold, the
\* quantity added back to the stock.
C25_RejectEventsCarryReason ==
  [][ /\ RejectEventsCarryReasonAndStock
      /\ \A e \in NewRejectEvents :
           /\ e.name = "sale_status_updated" =>
                (e.type = "rejected" /\ e.room = EmployeeRoom(sales[e.sale].soldBy))
           /\ e.name = "sale_rejected_broadcast" => e.room = AdminRoom
    ]_vars

\* a sale of two units was rejected: both events carry the reason and the
\* two units, and the stock is back at its initial value
C25_Witness ==
  \E s \in SaleIds :
    /\ sales[s].status = "rejected"
    /\ sales[s].qtySold = 2
    /\ product[sales[s].product].qtyInStock = InitStock
    /\ \E e \in BagToSet(emitted) :
         /\ e.name = "sale_status_updated" /\ e.sale = s /\ e.type = "rejected"
         /\ e.reason = "damaged" /\ e.stockRestored = 2
    /\ \E e \in BagToSet(emitted) :
         /\ e.name = "sale_rejected_broadcast" /\ e.sale = s
         /\ e.reason = "damaged" /\ e.stockRestored = 2
\* C26: a bulk approval takes a non-empty list: an admin's bulk approval
\* with an empty list is refused at once with an error, changes nothing and
\* emits nothing, and no bulk approval goes on with an empty list, on the
\* HTTP operation and on the realtime command alike.
C26_EmptyListRefused ==
  [][ /\ (/\ ImmediateReply
          /\ lastReply'.kind = "bulk"
          /\ IsAdmin(lastReply'.actor)
          /\ lastReply'.total = 0) =>
           /\ lastReply'.result = "EmptyList"
           /\ store' = store
           /\ emitted' = emitted
      /\ \A p \in Procs :
           (req[p].pc = "idle" /\ req'[p].kind = "bulk") => Len(req'[p].ids) > 0
    ]_vars
\* the events about one sale that the step emits
NewSaleEvents ==
  NewEvents("sale_status_updated") \cup NewEvents("sale_approved_broadcast")
    \cup NewEvents("sale_rejected_broadcast")

\* the status a sale event announces
AnnouncedStatus(e) ==
  IF e.name = "sale_approved_broadcast" THEN "approved"
  ELSE IF e.name = "sale_rejected_broadcast" THEN "rejected" ELSE e.type

\* the handler in slot p has committed a transition when the step begins
HasCommitted(p) ==
  IF req[p].kind = "bulk"
  THEN \E i \in DOMAIN req[p].results : req[p].results[i].committed
  ELSE req[p].committed

\* C27: realtime events are projections of committed transitions only.  An
\* event about a sale is emitted in the step that commits the transition of
\* that sale to the status it announces, never before; a count or batch
\* event is emitted by a handler that has committed a transition; and a step
\* in which a handler is refused or fails before its commit emits nothing.
C27_EventsOnlyAfterCommit ==
  [][ /\ \A e \in NewSaleEvents :
           \E p \in Procs :
              /\ req[p].pc = "write" /\ req'[p] # req[p]
              /\ req[p].sale = e.sale
              /\ store' # store
              /\ sales'[e.sale].status = AnnouncedStatus(e)
      /\ (NewEvents("pending_count_updated") \cup NewEvents("bulk_approval_completed")) # {} =>
           \E p \in Procs :
              /\ req[p].pc = "push" /\ req'[p].pc = "idle"
              /\ HasCommitted(p)
      /\ \A p \in Procs : FailsBeforeCommit(p) => emitted' = emitted
      /\ (ImmediateReply /\ lastReply'.result # "success") => emitted' = emitted
    ]_vars
\* C28: in every committed state a sale that is pending has approvedBy and
\* approvedAt unset, and a sale that is approved or rejected has both set,
\* approvedBy being an admin, whichever entry point resolved it.
C28_ResolverIsRecorded ==
  \A s \in SaleIds :
    IF sales[s].status = "pending"
    THEN sales[s].approvedBy = "" /\ sales[s].approvedAt = 0
    ELSE IsAdmin(sales[s].approvedBy) /\ sales[s].approvedAt > 0
\* "SALE-" followed by the one-digit number k, zero-padded to 6 digits
PaddedNumber(k) == <<"S", "A", "L", "E", "-", "0", "0", "0", "0", "0", Digit(k)>>

\* C29: the count a creation reads is the number of sale rows at that
\* moment, and the sale it commits has the number "SALE-" followed by that
\* count + 1, zero-padded to 6 digits; when no other creation committed
\* between its count and its commit, the k-th created sale has the number k.
C29_SaleNumberFromCount ==
  [][ \A p \in Procs :
        /\ (req[p].kind = "create" /\ req[p].pc = "count" /\ req'[p].pc = "write") =>
             req'[p].snapCount = Len(sales)
        /\ (req[p].kind = "create" /\ Len(sales') > Len(sales) /\ req'[p] # req[p]) =>
             LET row == sales'[Len(sales')] IN
             /\ row.saleNumber = PaddedNumber(req[p].snapCount + 1)
             /\ req[p].snapCount = Len(sales) => row.saleNumber = PaddedNumber(Len(sales'))
    ]_vars

\* two sales were created one after the other and have the numbers
\* SALE-000001 and SALE-000002
C29_Witness ==
  /\ Len(sales) = 2
  /\ sales[1].saleNumber = PaddedNumber(1)
  /\ sales[2].saleNumber = PaddedNumber(2)
\* C30: a bulk approval ends with an answer that holds exactly one result
\* entry per ID of its list, in the order of the list, each with the ID and
\* its success, and totalProcessed equal to the length of the list.
C30_BulkOneResultPerId ==
  [][ \A p \in Procs :
        (req[p].kind = "bulk" /\ req[p].pc # "idle" /\ req'[p].pc = "idle") =>
          /\ lastReply'.result = "success"
          /\ Len(lastReply'.results) = Len(req[p].ids)
          /\ \A i \in DOMAIN lastReply'.results :
               lastReply'.results[i].saleId = req[p].ids[i]
          /\ lastReply'.totalProcessed = Len(req[p].ids)
    ]_vars
\* the sum of f[i] over the indices of a sequence
RECURSIVE SumUpTo(_, _)
SumUpTo(f, n) == IF n = 0 THEN 0 ELSE f[n] + SumUpTo(f, n - 1)

\* what the manual movements of a product add to its stock
ManualNet(i) ==
  SumUpTo([m \in DOMAIN movements |->
             IF movements[m].product = i /\ movements[m].sale = NoSaleNumber
             THEN IF movements[m].type = "in" THEN movements[m].quantity
                                              ELSE 0 - movements[m].quantity
             ELSE 0],
          Len(movements))

\* the units of a product held by its pending and approved sales
UnitsSold(i) ==
  SumUpTo([s \in SaleIds |->
             IF sales[s].product = i /\ sales[s].status \in {"pending", "approved"}
             THEN sales[s].qtySold ELSE 0],
          Len(sales))

\* C31: in every committed state the stock of each product is its initial
\* stock plus the manual 'in' quantities minus the manual 'out' quantities
\* minus the qtySold of its pending and approved sales, however creations,
\* rejections and stock movements interleave.
C31_StockConserved ==
  \A i \in Products :
    product[i].qtyInStock = InitStock + ManualNet(i) - UnitsSold(i)
\* the sum of totalPrice and of profit over the approved sales of a product
ApprovedTotalPrice(i) ==
  SumUpTo([s \in SaleIds |->
             IF sales[s].product = i /\ sales[s].status = "approved"
             THEN sales[s].totalPrice ELSE 0],
          Len(sales))

ApprovedProfit(i) ==
  SumUpTo([s \in SaleIds |->
             IF sales[s].product = i /\ sales[s].status = "approved"
             THEN sales[s].profit ELSE 0],
          Len(sales))

\* C32: in every committed state, for each product, totalSales is the sum
\* of totalPrice and totalProfit the sum of profit over the product's
\* approved sales, whichever entry points created, approved and rejected them.
C32_AggregatesMatchApprovedSales ==
  \A i \in Products :
    /\ product[i].totalSales = ApprovedTotalPrice(i)
    /\ product[i].totalProfit = ApprovedProfit(i)
\* C33: sale numbers are unique among the committed sales.  A creation
\* whose number is already taken when it writes, because another creation
\* read the same count and committed first, does not commit: it inserts no
\* sale, changes no stock, writes no movement and answers with a failure.
C33_SaleNumbersUnique ==
  [][ /\ \A s, t \in 1..Len(sales') :
           sales'[s].saleNumber = sales'[t].saleNumber => s = t
      /\ \A p \in Procs :
           (/\ req[p].kind = "create" /\ req[p].pc = "write" /\ req'[p] # req[p]
            /\ \E s \in SaleIds : sales[s].saleNumber = SaleNumberOf(req[p].snapCount)) =>
             /\ store' = store
             /\ lastReply'.result = "error"
             /\ ~lastReply'.committed
    ]_vars

\* two creations read the same count; one committed, and the other was
\* refused by the unique column and left the stock and the movement log of
\* the first alone
C33_Witness ==
  /\ lastReply.kind = "create"
  /\ lastReply.result = "error"
  /\ lastReply.cause = "duplicate saleNumber"
  /\ Quiescent
  /\ Len(sales) = 1
  /\ product[sales[1].product].qtyInStock = InitStock - sales[1].qtySold
  /\ Len(movements) <= 1
\* C34: every handler that opens a transaction ends it with exactly one
\* commit or one rollback before it releases the connection, on every path
\* that answers, the validation-error return of sale creation and of the
\* manual stock update included.
C34_TransactionEndsOnce ==
  lastReply.via \in Transactional => lastReply.ends = 1
\* C35: a realtime command (approve_sale_realtime, reject_sale_realtime,
\* bulk_approve_sales) issued on a connection whose socket.data.user is
\* unset or has a role other than admin is answered Unauthorized at once,
\* changes no sale, product or stock-movement row and emits no event; no
\* such command goes on to a further step.
C35_NotJoinedAsAdminIsRefused ==
  [][ /\ (/\ ImmediateReply
          /\ lastReply'.via \in RealtimeCommands
          /\ socket[lastReply'.conn].user.role # "admin") =>
           /\ lastReply'.result = "Unauthorized"
           /\ store' = store
           /\ emitted' = emitted
           /\ adminCount' = adminCount
      /\ \A p \in Procs :
           (req[p].pc = "idle" /\ req'[p].via \in RealtimeCommands) =>
             socket[req'[p].conn].user.role = "admin"
    ]_vars

\* a connection that joined as employee asked to reject a pending sale over
\* the realtime channel and was refused; the sale is still pending
C35_Witness ==
  /\ lastReply.via = "reject_sale_realtime"
  /\ lastReply.result = "Unauthorized"
  /\ socket[lastReply.conn].user.role = "employee"
  /\ lastReply.sale \in SaleIds
  /\ sales[lastReply.sale].status = "pending"
  /\ ~IsBlank(lastReply.text)
  /\ emitted = EmptyBag
Joins(p) == req[p].pc = "idle" /\ req'[p].kind = "join"

\* slot p sends the messages that end its join_sales_room in this step
JoinDelivers(p) ==
  req[p].kind = "join" /\ req[p].pc = "emit" /\ req'[p].pc = "idle"

\* the messages the step sends to connection c alone
Delivered(c) ==
  SubSeq(socket'[c].received, Len(socket[c].received) + 1, Len(socket'[c].received))

\* a join as admin adds the admin room and the user's own room, a join as
\* employee the employee's own sales room and the user's own room and not
\* the admin room; no other step changes the rooms of a connection; only a
\* join as admin is sent initial_pending_count, once, before
\* sales_room_joined
JoinRoomsByRole ==
  /\ \A p \in Procs :
       /\ Joins(p) =>
            LET c == req'[p].conn
                u == req'[p].actor
                added == socket'[c].rooms \ socket[c].rooms
            IN /\ req'[p].text = "admin" =>
                    socket'[c].rooms = socket[c].rooms \cup {AdminRoom, UserRoom(u)}
               /\ req'[p].text = "employee" =>
                    /\ socket'[c].rooms =
                         socket[c].rooms \cup {EmployeeRoom(u), UserRoom(u)}
                    /\ AdminRoom \notin added
       /\ JoinDelivers(p) =>
            LET sent == Delivered(req[p].conn)
                counts == {i \in DOMAIN sent : sent[i].name = "initial_pending_count"}
            IN /\ req[p].text = "admin" => counts = {1}
               /\ req[p].text # "admin" => counts = {}
               /\ sent[Len(sent)].name = "sales_room_joined"
  /\ \A c \in Connections :
       socket'[c].rooms # socket[c].rooms => \E p \in Procs : Joins(p) /\ req'[p].conn = c

\* C37 as stated: a join as admin adds the admin room and the own user room
\* and is sent an initial_pending_count equal to the number of pending
\* sales at the moment the message is sent; a join as employee adds only
\* the own employee room and user room, never the admin room.
C37_InitialCountIsCurrent ==
  [][ /\ JoinRoomsByRole
      /\ \A p \in Procs :
           (JoinDelivers(p) /\ req[p].text = "admin") =>
             Delivered(req[p].conn)[1].count = PendingCount
    ]_vars

\* C37, amended: the rooms are as stated, and the initial_pending_count
\* sent to a join as admin is the number of pending sales in the committed
\* state that the handler's count query read after the join; sales created
\* or resolved between that query and the sending are not reflected.
C37_InitialCountIsQueried ==
  [][ /\ JoinRoomsByRole
      /\ \A p \in Procs :
           /\ (req[p].kind = "join" /\ req[p].pc = "query" /\ req'[p].pc = "emit"
                /\ req[p].text = "admin") =>
                req'[p].count = PendingCount
           /\ (JoinDelivers(p) /\ req[p].text = "admin") =>
                Delivered(req[p].conn)[1].count = req[p].count
    ]_vars

\* a connection joined as admin while one sale was pending: it is in the
\* admin room and its own user room and was sent the count 1, then
\* sales_room_joined
C37_Witness ==
  \E c \in Connections :
    /\ socket[c].user.role = "admin"
    /\ socket[c].rooms = {AdminRoom, UserRoom(socket[c].user.userId)}
    /\ Len(socket[c].received) = 2
    /\ socket[c].received[1].name = "initial_pending_count"
    /\ socket[c].received[1].count = 1
    /\ socket[c].received[2].name = "sales_room_joined"
    /\ PendingCount = 1
====
